---------------------------- MODULE Spec2Model ----------------------------
(***************************************************************************)
(* Model of the Research Tool API backend.                                 *)
(*                                                                         *)
(*   main.py   the FastAPI handlers over the in-memory documents_db and    *)
(*             chat_history, the uploads directory and the fire-and-forget *)
(*             background task process_document;                           *)
(*   utils.py  process_document / get_answer over the persisted vector     *)
(*             store "embeddings/vector_store".                            *)
(*                                                                         *)
(* Each handler is one action (the handlers hold no await between their    *)
(* reads and writes of the shared state, so they are atomic on the event   *)
(* loop); the background task is the action that runs after its sleep.     *)
(***************************************************************************)
EXTENDS Integers, Sequences, FiniteSets, TLC

VARIABLES
    documents_db,   \* main.py documents_db: document id -> record
    chat_history,   \* main.py chat_history: sequence of chat messages
    files,          \* files present under uploads/
    tasks,          \* background process_document tasks still sleeping
    next_id,        \* the next fresh document id (uuid4 never repeats)
    vector_store,   \* utils.py: the store persisted at embeddings/vector_store
    resp            \* the operation that ran last, its request and its outcome

vars == <<documents_db, chat_history, files, tasks, next_id, vector_store, resp>>

mainVars == <<documents_db, chat_history, files, tasks, next_id>>

-----------------------------------------------------------------------------
(* Bounds of the model *)

MaxDocs == 2        \* uploads accepted in one run
MaxChat == 2        \* entries chat_history grows to before it is cleared

-----------------------------------------------------------------------------
(* Program constants *)

SourceLimit == 3        \* ready_docs[:3]
ConfidenceNone == 0     \* confidence=0.0, in hundredths
ConfidenceAnswer == 85  \* confidence=0.85, in hundredths

-----------------------------------------------------------------------------
(* Inputs *)

\* A file name is its stem and the text after its last dot ("" when it has
\* no dot).
FileName(stem, ext) == [stem |-> stem, ext |-> ext]

\* Names of uploaded files.
FileNames == { FileName("b", "PDF"), FileName("x", "exe") }

\* Paths handed to utils.process_document.
Paths ==
    { FileName("a", "txt"), FileName("d", "pdf"), FileName("b", "PDF"),
      FileName("notes", "") }

\* How many chunks the text of the file at a path is split into.
ChunkCount(path) == IF path.ext = "pdf" THEN 2 ELSE 1

\* The ids a request may name: every id the run can issue.
DocIds == 1..MaxDocs

\* A chat message is a sequence of words.
Messages == { <<"Summarize", "findings">>, <<"hello">> }

\* ChatRequest.document_ids: None (given = FALSE) or a list of ids.
DocumentIdsInputs ==
    { [given |-> FALSE, ids |-> {}] } \cup
    { [given |-> TRUE, ids |-> s] : s \in {{}} \cup { {id} : id \in DocIds } }

\* Python truthiness of an Optional[List]: None and [] are falsy.
Truthy(document_ids) == document_ids.given /\ document_ids.ids # {}

NoFilter == [given |-> FALSE, ids |-> {}]
NoFile == FileName("", "")

-----------------------------------------------------------------------------
(* Helpers of main.py *)

\* str.lower() on the words and extensions of the model's vocabulary.
Lower(s) ==
    CASE s = "PDF" -> "pdf"
      [] s = "Summarize" -> "summarize"
      [] OTHER -> s

allowed_extensions == {".pdf", ".doc", ".docx", ".txt", ".md", ".rtf"}

\* file_extension = Path(file.filename).suffix.lower()
file_extension(filename) ==
    IF filename.ext = "" THEN "" ELSE "." \o Lower(filename.ext)

ValidateNoCheck(filename) == TRUE

\* The validation step of upload_document lets the file through.
ValidateExtension(filename) == file_extension(filename) \in allowed_extensions

\* UPLOAD_DIR / f"{document_id}_{file.filename}"
FilePath(id, filename) == [id |-> id, filename |-> filename]

\* document_data of upload_document
NewDocument(id, filename) ==
    [id |-> id, filename |-> filename, status |-> "processing",
     file_path |-> FilePath(id, filename)]

\* What a handler's body raised: the exception's class, its status code (0
\* when it has none) and its detail.
Raised(class, code, detail) == [class |-> class, code |-> code, detail |-> detail]

\* upload_document's "except Exception as e": HTTPException is an Exception,
\* so whatever the body raised leaves as a 500.
UploadExcept(raised) ==
    Raised("HTTPException", 500, "Failed to upload document")

\* delete_document's "except HTTPException: raise" before "except Exception".
DeleteExcept(raised) ==
    IF raised.class = "HTTPException"
    THEN raised
    ELSE Raised("HTTPException", 500, "Failed to delete document")

\* ready_docs: documents_db.values() keeps insertion order, which is the
\* order of the ids; the ready ones among them, as a sequence of ids.
RECURSIVE SortedSeq(_)
SortedSeq(S) ==
    IF S = {} THEN <<>>
    ELSE LET m == CHOOSE x \in S : \A y \in S : x <= y
         IN <<m>> \o SortedSeq(S \ {m})

ReadyIds(db) == { id \in DOMAIN db : db[id].status = "ready" }
ReadyDocs(db) == SortedSeq(ReadyIds(db))

\* ready_docs[:3]
FirstN(s, n) == SubSeq(s, 1, IF Len(s) < n THEN Len(s) ELSE n)

\* "w" in message.lower()
Contains(message, w) == \E i \in 1..Len(message) : Lower(message[i]) = w

\* The canned answer of chat.
Respond(message, n) ==
    LET kind ==
          IF Contains(message, "summarize") \/ Contains(message, "summary")
            THEN "summary"
          ELSE IF Contains(message, "key findings") \/ Contains(message, "findings")
            THEN "findings"
          ELSE IF Contains(message, "themes") \/ Contains(message, "theme")
            THEN "themes"
          ELSE IF Contains(message, "contradictions") \/ Contains(message, "contradiction")
            THEN "contradictions"
          ELSE IF Contains(message, "timeline")
            THEN "timeline"
          ELSE "analysis"
    IN [kind |-> kind, n |-> n]

\* The condition of chat's early return.
ChatEarlyReturn(ready_docs, document_ids) ==
    ready_docs = <<>> /\ Truthy(document_ids)

\* sources = [doc["filename"] for doc in ready_docs[:3]]
SourceDocs(ready_docs) == FirstN(ready_docs, SourceLimit)
Sources(db, ready_docs) ==
    [i \in 1..Len(SourceDocs(ready_docs)) |-> db[SourceDocs(ready_docs)[i]].filename]

ChatMessage(message, response, sources) ==
    [message |-> message, response |-> response, sources |-> sources]

OverwriteChat(history, chat_message) == <<chat_message>>

\* chat_history.append(chat_message)
AppendChat(history, chat_message) == Append(history, chat_message)

MarkProcessedRenamed(db, document_id) ==
    IF document_id \in DOMAIN db
    THEN [db EXCEPT ![document_id].status = "processed"]
    ELSE db

MarkProcessedUnchecked(db, document_id) ==
    (document_id :> [id |-> document_id, filename |-> NoFile, status |-> "ready",
                     file_path |-> FilePath(document_id, NoFile)]) @@ db

MarkProcessedForgotten(db, document_id) == db

\* process_document: if document_id in documents_db: status = "ready"
MarkProcessed(db, document_id) ==
    IF document_id \in DOMAIN db
    THEN [db EXCEPT ![document_id].status = "ready"]
    ELSE db

\* del documents_db[document_id]
Remove(db, document_id) == [d \in DOMAIN db \ {document_id} |-> db[d]]

-----------------------------------------------------------------------------
(* Helpers of utils.py *)

\* ext = path.split(".")[-1]
SplitExt(path) == IF path.ext = "" THEN path.stem ELSE path.ext

\* The branches that pick a loader.
HasLoader(path) == SplitExt(path) \in {"pdf", "txt"}

\* splitter.split_documents(loader.load()): the chunks of the file.
Chunks(path) == { [path |-> path, idx |-> i] : i \in 1..ChunkCount(path) }

NoStore == [exists |-> FALSE, docs |-> {}]

\* FAISS.from_documents(docs, embeddings) builds an index of docs alone and
\* save_local writes it over whatever the directory held.
SaveLocal(store, docs) == [exists |-> TRUE, docs |-> docs]

\* What utils.process_document leaves behind: the steps it ran and the store.
\* failure: which library call raises, "none" when none does.
UtilsProcess(store, path, failure) ==
    IF ~HasLoader(path)
      THEN [ok |-> FALSE, steps |-> <<>>, store |-> store]
    ELSE IF failure = "load"
      THEN [ok |-> FALSE, steps |-> <<"load">>, store |-> store]
    ELSE IF failure = "embed"
      THEN [ok |-> FALSE, steps |-> <<"load", "split", "embed">>, store |-> store]
    ELSE [ok |-> TRUE, steps |-> <<"load", "split", "embed", "save">>,
          store |-> SaveLocal(store, Chunks(path))]

-----------------------------------------------------------------------------
(* The record of the last operation *)

Resp(op, code, id, filename, filter, docs, sources, confidence, steps) ==
    [op |-> op, code |-> code, id |-> id, filename |-> filename,
     filter |-> filter, docs |-> docs, sources |-> sources,
     confidence |-> confidence, steps |-> steps, chunks |-> {}]

Init ==
    /\ documents_db = <<>>
    /\ chat_history = <<>>
    /\ files = {}
    /\ tasks = {}
    /\ next_id = 1
    /\ vector_store = NoStore
    /\ resp = Resp("none", 0, 0, NoFile, NoFilter, <<>>, <<>>, 0, <<>>)

-----------------------------------------------------------------------------
(* main.py *)

\* POST /documents/upload
upload_document(filename, open_ok) ==
    /\ next_id <= MaxDocs
    /\ IF ~ValidateExtension(filename)
       THEN \* HTTPException(400) raised inside the try
            /\ resp' = Resp("upload",
                            UploadExcept(Raised("HTTPException", 400, "File type not supported")).code,
                            0, filename, NoFilter, <<>>, <<>>, 0, <<>>)
            /\ UNCHANGED <<mainVars, vector_store>>
       ELSE IF ~open_ok
       THEN \* open() raised: no file, no record (the uuid drawn is never seen)
            /\ resp' = Resp("upload", UploadExcept(Raised("OSError", 0, "open failed")).code,
                            0, filename, NoFilter, <<>>, <<>>, 0, <<>>)
            /\ UNCHANGED <<mainVars, vector_store>>
       ELSE /\ files' = files \cup {FilePath(next_id, filename)}
            /\ documents_db' =
                 (next_id :> NewDocument(next_id, filename)) @@ documents_db
            /\ tasks' = tasks \cup {next_id}
            /\ next_id' = next_id + 1
            /\ resp' = Resp("upload", 200, next_id, filename, NoFilter,
                            <<>>, <<>>, 0, <<>>)
            /\ UNCHANGED <<chat_history, vector_store>>

\* The background task created by upload_document, after its sleep.
process_document(document_id) ==
    /\ document_id \in tasks
    /\ tasks' = tasks \ {document_id}
    /\ documents_db' = MarkProcessed(documents_db, document_id)
    /\ resp' = Resp("process_document", 0, document_id, NoFile, NoFilter,
                    <<>>, <<>>, 0, <<>>)
    /\ UNCHANGED <<chat_history, files, next_id, vector_store>>

\* GET /documents
get_documents ==
    /\ resp' = Resp("get_documents", 200, 0, NoFile, NoFilter,
                    SortedSeq(DOMAIN documents_db), <<>>, 0, <<>>)
    /\ UNCHANGED <<mainVars, vector_store>>

\* DELETE /documents/{document_id}
delete_document(document_id) ==
    IF document_id \notin DOMAIN documents_db
    THEN /\ resp' = Resp("delete", DeleteExcept(Raised("HTTPException", 404, "Document not found")).code,
                         document_id, NoFile, NoFilter, <<>>, <<>>, 0, <<>>)
         /\ UNCHANGED <<mainVars, vector_store>>
    ELSE /\ files' = files \ {documents_db[document_id].file_path}
         /\ documents_db' = Remove(documents_db, document_id)
         /\ resp' = Resp("delete", 200, document_id, NoFile, NoFilter,
                         <<>>, <<>>, 0, <<>>)
         /\ UNCHANGED <<chat_history, tasks, next_id, vector_store>>

\* POST /chat
chat(message, document_ids) ==
    LET ready_docs == ReadyDocs(documents_db) IN
    /\ Len(chat_history) < MaxChat
    /\ IF ChatEarlyReturn(ready_docs, document_ids)
       THEN /\ resp' = Resp("chat", 200, 0, NoFile, document_ids, <<>>, <<>>,
                            ConfidenceNone, <<>>)
            /\ UNCHANGED <<mainVars, vector_store>>
       ELSE LET response == Respond(message, Len(ready_docs))
                sources == Sources(documents_db, ready_docs)
            IN /\ chat_history' =
                    AppendChat(chat_history, ChatMessage(message, response, sources))
               /\ resp' = Resp("chat", 200, 0, NoFile, document_ids,
                               SourceDocs(ready_docs), sources,
                               ConfidenceAnswer, <<>>)
               /\ UNCHANGED <<documents_db, files, tasks, next_id, vector_store>>

\* DELETE /chat/history
clear_chat_history ==
    /\ chat_history' = <<>>
    /\ resp' = Resp("clear_chat_history", 200, 0, NoFile, NoFilter,
                    <<>>, <<>>, 0, <<>>)
    /\ UNCHANGED <<documents_db, files, tasks, next_id, vector_store>>

\* POST /search
search_documents(document_ids) ==
    LET search_docs == IF document_ids # {}
                       THEN DOMAIN documents_db \cap document_ids
                       ELSE DOMAIN documents_db
    IN /\ resp' = Resp("search", 200, 0, NoFile,
                       [given |-> TRUE, ids |-> document_ids],
                       SortedSeq(search_docs \cap ReadyIds(documents_db)),
                       <<>>, 0, <<>>)
       /\ UNCHANGED <<mainVars, vector_store>>

-----------------------------------------------------------------------------
(* utils.py *)

utils_process_document(path, failure) ==
    LET r == UtilsProcess(vector_store, path, failure) IN
    /\ vector_store' = r.store
    /\ resp' = Resp("utils.process_document", IF r.ok THEN 200 ELSE 500, 0,
                    path, NoFilter, <<>>, <<>>, 0, r.steps)
    /\ UNCHANGED mainVars

\* get_answer: load_local raises when nothing was saved; otherwise the
\* documents similarity_search hands to the chain are documents of the store.
get_answer(found) ==
    /\ IF ~vector_store.exists
       THEN /\ found = {}
            /\ resp' = Resp("utils.get_answer", 500, 0, NoFile, NoFilter,
                            <<>>, <<>>, 0, <<>>)
       ELSE /\ found \subseteq vector_store.docs
            /\ resp' = [Resp("utils.get_answer", 200, 0, NoFile, NoFilter,
                             <<>>, <<>>, 0, <<>>) EXCEPT !.chunks = found]
    /\ UNCHANGED <<mainVars, vector_store>>

-----------------------------------------------------------------------------

\* The routes of the application in main.py and its background tasks.
AppNext ==
    \/ \E f \in FileNames, open_ok \in BOOLEAN : upload_document(f, open_ok)
    \/ \E id \in DocIds : process_document(id)
    \/ get_documents
    \/ \E id \in DocIds : delete_document(id)
    \/ \E m \in Messages, d \in DocumentIdsInputs : chat(m, d)
    \/ clear_chat_history
    \/ \E d \in {{}} \cup { {id} : id \in DocIds } : search_documents(d)

\* The functions of utils.py, which main.py does not import.
UtilsNext ==
    \/ \E p \in Paths, failure \in {"none", "load", "embed"} :
          utils_process_document(p, failure)
    \/ \E found \in SUBSET UNION { Chunks(p) : p \in Paths } :
          get_answer(found)

Next == AppNext \/ UtilsNext

Spec == Init /\ [][Next]_vars

\* The application alone; the event loop runs every task it holds once its
\* sleep is over.
FairSpec ==
    /\ Init
    /\ [][AppNext]_vars
    /\ \A id \in DocIds : WF_vars(process_document(id))

-----------------------------------------------------------------------------
(* Properties *)

IsPrefix(s, t) == Len(s) <= Len(t) /\ SubSeq(t, 1, Len(s)) = s

\* Ids issued to accepted uploads whose record is gone: the deleted documents.
Deleted(db, next) == (1..(next - 1)) \ DOMAIN db

Range(s) == { s[i] : i \in 1..Len(s) }

StatusOf(db, id) == db[id].status

\* Every record's status is processing, ready or failed.
C1_Statuses ==
    \A id \in DOMAIN documents_db :
        StatusOf(documents_db, id) \in {"processing", "ready", "failed"}

\* When upload_document returns success the new record is in documents_db
\* with status "processing"; a status only ever changes from processing to
\* ready or to failed.
C1_Step ==
    /\ (resp'.op = "upload" /\ resp'.code = 200) =>
          /\ resp'.id \notin DOMAIN documents_db
          /\ resp'.id \in DOMAIN documents_db'
          /\ StatusOf(documents_db', resp'.id) = "processing"
    /\ \A id \in DOMAIN documents_db \cap DOMAIN documents_db' :
          StatusOf(documents_db', id) # StatusOf(documents_db, id) =>
             /\ StatusOf(documents_db, id) = "processing"
             /\ StatusOf(documents_db', id) \in {"ready", "failed"}

\* C1: the status lifecycle: every status is processing, ready or failed, and
\* every step keeps to upload -> processing -> {ready, failed}.
C1_Lifecycle == []C1_Statuses /\ [][C1_Step]_vars

C1_Witness ==
    /\ resp.op = "process_document"
    /\ resp.id \in DOMAIN documents_db
    /\ StatusOf(documents_db, resp.id) = "ready"
    /\ \E id \in DOMAIN documents_db : StatusOf(documents_db, id) = "processing"

\* C2: a chat request issued while no document is ready is answered normally
\* with confidence 0.0 and no sources, whatever its message and document_ids.
C2_NoReadyNoConfidence ==
    [][(resp'.op = "chat" /\ ReadyIds(documents_db) = {}) =>
          /\ resp'.code = 200
          /\ resp'.confidence = ConfidenceNone
          /\ resp'.sources = <<>>]_vars

\* C3: an upload whose extension is not allowed changes nothing: no record,
\* no file, no background task, the same chat_history; utils.process_document
\* on a path it has no loader for runs no step and leaves the store as it was.
C3_RejectedBeforeProcessing ==
    [][/\ (resp'.op = "upload" /\ file_extension(resp'.filename) \notin allowed_extensions) =>
            /\ resp'.code # 200
            /\ UNCHANGED <<documents_db, chat_history, files, tasks>>
       /\ (resp'.op = "utils.process_document"
             /\ SplitExt(resp'.filename) \notin {"pdf", "txt"}) =>
            /\ resp'.code # 200
            /\ resp'.steps = <<>>
            /\ UNCHANGED vector_store]_vars

C3_Witness ==
    /\ resp.op = "upload"
    /\ resp.filename.ext = "exe"
    /\ resp.code # 200
    /\ DOMAIN documents_db # {}
    /\ tasks # {}

\* C4: a deleted document's id is never a key of documents_db again, the late
\* completion of its background task changes nothing, and no later list,
\* search or chat result names it.
C4_DeleteWins ==
    [][/\ Deleted(documents_db, next_id) \subseteq Deleted(documents_db', next_id')
       /\ (resp'.op = "process_document" /\ resp'.id \in Deleted(documents_db, next_id)) =>
             UNCHANGED <<documents_db, chat_history, files>>
       /\ (resp'.op \in {"get_documents", "search", "chat"}) =>
             Range(resp'.docs) \cap Deleted(documents_db, next_id) = {}]_vars

C4_Witness ==
    /\ resp.op = "process_document"
    /\ resp.id \in Deleted(documents_db, next_id)
    /\ resp.id \notin tasks

\* C5: with a non-empty document_ids filter, every source of the chat response
\* is a ready document named by the filter.
C5_SourcesWithinFilter ==
    (resp.op = "chat" /\ Truthy(resp.filter)) =>
        Range(resp.docs) \subseteq resp.filter.ids

\* C6: every chat request that returns a ChatResponse appends exactly one
\* entry holding its question, answer and sources, so that n responses since
\* the last clear leave n entries.
C6_OneEntryPerResponse ==
    [][(resp'.op = "chat" /\ resp'.code = 200) =>
          /\ Len(chat_history') = Len(chat_history) + 1
          /\ chat_history'[Len(chat_history')].sources = resp'.sources]_vars

\* C7: chat_history only grows by appending; clear_chat_history alone removes
\* entries, and it empties the log and leaves documents_db as it was.
C7_AppendOnly ==
    [][/\ (resp'.op # "clear_chat_history") => IsPrefix(chat_history, chat_history')
       /\ (resp'.op = "clear_chat_history") =>
             /\ chat_history' = <<>>
             /\ UNCHANGED documents_db]_vars

C7_Witness ==
    /\ resp.op = "chat"
    /\ resp.confidence = ConfidenceAnswer
    /\ Len(chat_history) = 2
    /\ chat_history[1] # chat_history[2]

\* C8: a successful utils.process_document adds the document's chunks to the
\* persisted store and removes none of the chunks already in it.
C8_IngestionAppends ==
    [][(resp'.op = "utils.process_document" /\ resp'.code = 200) =>
          /\ vector_store.docs \subseteq vector_store'.docs
          /\ Chunks(resp'.filename) \subseteq vector_store'.docs]_vars

\* C9: under fair scheduling of the background tasks, every document that is
\* processing eventually is ready, failed or deleted.
C9_IngestionCompletes ==
    \A id \in DocIds :
        (id \in DOMAIN documents_db /\ StatusOf(documents_db, id) = "processing")
          ~> (id \notin DOMAIN documents_db
                \/ StatusOf(documents_db, id) \in {"ready", "failed"})

C9_Witness ==
    /\ resp.op = "process_document"
    /\ tasks = {}
    /\ DOMAIN documents_db = DocIds
    /\ \A id \in DocIds : StatusOf(documents_db, id) = "ready"

\* C10: an upload with a disallowed extension ends with status 400, never 500.
C10_RejectedWith400 ==
    (resp.op = "upload" /\ file_extension(resp.filename) \notin allowed_extensions) =>
        resp.code = 400

=============================================================================
